---- MODULE Spec2Model ----
(***************************************************************************)
(* Ticket inventory and payment transaction engine of afro_hub_backend.    *)
(*                                                                         *)
(* The store of record is MongoDB accessed through Mongoose: `events` is   *)
(* the Event collection, `txns` the Transaction collection.  Every request *)
(* handler is an async function; the code between two `await`s runs        *)
(* without interruption, so each action below is one such stretch: it      *)
(* starts when the awaited database or provider call takes effect and ends *)
(* when the handler issues its next await (or responds).  A handler works  *)
(* on its own in-memory copies of the documents it has read (`loc`), and   *)
(* document.save() writes only the paths that were modified on the copy.   *)
(*                                                                         *)
(* Money is counted in units of 0.005 currency, so the 0.01 tolerance of   *)
(* the price check is 2 units.                                             *)
(***************************************************************************)
EXTENDS Integers, Sequences, FiniteSets, TLC

\* ---------------------------------------------------------------- bounds
MaxProcs == 2      \* request handlers in flight at the same time
MaxOrders == 2     \* orders the payment provider ever opens
MaxCalls == 4      \* requests ever received
MaxHistory == 2    \* transactions in the store when the read-side is queried
MaxAvailable == 2  \* tickets left of a type when reduceTicketAvailability is called on its own

Procs == 1..MaxProcs
OrderIds == 1..MaxOrders

\* ------------------------------------------------------ program constants
Tolerance == 2     \* 0.01 in units of 0.005
MaxPricingOptions == 10

\* --------------------------------------------------------------- domains
EventIds == {"e1"}
TicketTypeIds == {"vip"}
RequestTicketTypes == TicketTypeIds \cup {"option_1"}
RequestCounts == {0, 1, 2}
RequestPrices == {0, 10, 13}
\* A request with a required field missing is answered before any field is
\* looked at, so one request per missing field stands for all of them.
MissingFieldRequest(ticketCount, ticketType, pricePerTicket) ==
    /\ ticketType = "vip"
    /\ <<ticketCount, pricePerTicket>> \in {<<0, 10>>, <<1, 0>>}
NoToken == 0

\* JavaScript values that are not ordinary numbers or strings
NaN == -999999            \* parseFloat / parseInt of text that is no number
UndefinedNumber == -999998  \* a numeric field that is absent from the request
Unparsable == -999997     \* a numeric field holding text that is no number
Undefined == "undefined"  \* an absent string field or property

EmptyPricing == [k \in {} |-> [name |-> Undefined, price |-> NaN, available |-> NaN]]
NoEvent == [exists |-> FALSE, pricing |-> EmptyPricing]

InitPricing == [k \in TicketTypeIds |-> [name |-> "VIP", price |-> 10, available |-> 1]]

\* What a request carries: the body fields of a purchase and the `token`
\* query parameter of a completion or cancellation
NoRequest == [ticketId |-> "", ticketCount |-> 0, ticketType |-> "",
              pricePerTicket |-> 0, token |-> NoToken]
NoResponse == [handler |-> "none", request |-> NoRequest, body |-> "none"]

VARIABLES
    events,        \* Event collection: id -> document (or NoEvent)
    txns,          \* Transaction collection, in insertion order
    nextOrder,     \* provider: id of the next order it opens
    captureCalls,  \* provider: capture calls received per order
    op,            \* per handler slot: the handler running (or last run)
    pc,            \* per handler slot: the await it is suspended at
    loc,           \* per handler slot: the handler's local variables
    response,      \* the response sent by the step just taken, if it sent one
    calls,         \* requests received so far
    adminUpdated,  \* history: an update or delete of an event has been applied
    completedTokens, \* history: order references for which a Complete call
                   \* that found a PENDING transaction has responded
    normalizer     \* a call of the pricing normalizer on its own: the body it
                   \* was given, how far it has got and what it returned

vars == <<events, txns, nextOrder, captureCalls, op, pc, loc, response, calls,
          adminUpdated, completedTokens, normalizer>>

\* --------------------------------------------------------------- helpers
Abs(x) == IF x < 0 THEN -x ELSE x

\* Math.abs(parseFloat(pricePerTicket) - storedPrice) > 0.01; a NaN operand
\* makes the comparison false.  A difference of exactly 0.01 is decided by
\* binary floating point rounding (1.01 - 1 > 0.01 but 0.06 - 0.05 < 0.01),
\* so `roundsUp` is chosen by the caller for that case.
PriceMismatchLoose(provided, storedPrice, roundsUp) ==
    /\ storedPrice # NaN
    /\ \/ Abs(provided - storedPrice) > 10 * Tolerance
       \/ Abs(provided - storedPrice) = 10 * Tolerance /\ roundsUp

PriceMismatch(provided, storedPrice, roundsUp) ==
    /\ storedPrice # NaN
    /\ \/ Abs(provided - storedPrice) > Tolerance
       \/ Abs(provided - storedPrice) = Tolerance /\ roundsUp

\* availableTickets < requestedCount in createOrderController; false when
\* the stored count is NaN
InsufficientTicketsOffByOne(availableTickets, requestedCount) ==
    availableTickets # NaN /\ availableTickets + 1 < requestedCount

InsufficientTickets(availableTickets, requestedCount) ==
    availableTickets # NaN /\ availableTickets < requestedCount

\* Transaction.findOne({paypalOrderId: token, status: 'PENDING'}): index of
\* the first matching document, 0 when there is none.
PendingMatches(token) ==
    {i \in 1..Len(txns) : txns[i].paypalOrderId = token /\ txns[i].status = "PENDING"}

FindPendingAnyStatus(token) ==
    LET matches == {i \in 1..Len(txns) : txns[i].paypalOrderId = token} IN
    IF matches = {} THEN 0
    ELSE CHOOSE i \in matches : \A j \in matches : i <= j

FindPending(token) ==
    IF PendingMatches(token) = {} THEN 0
    ELSE CHOOSE i \in PendingMatches(token) : \A j \in PendingMatches(token) : i <= j

\* the method without its availability test
reduceTicketAvailabilityUnchecked(doc, ticketTypeId, quantity) ==
    IF ticketTypeId \in DOMAIN doc.pricing
    THEN [success |-> TRUE,
          doc |-> [doc EXCEPT !.pricing[ticketTypeId].available = @ - quantity]]
    ELSE [success |-> FALSE, doc |-> doc]

\* eventSchema.methods.reduceTicketAvailability, on an in-memory document
reduceTicketAvailability(doc, ticketTypeId, quantity) ==
    IF /\ ticketTypeId \in DOMAIN doc.pricing
       /\ doc.pricing[ticketTypeId].available # NaN
       /\ doc.pricing[ticketTypeId].available >= quantity
    THEN [success |-> TRUE,
          doc |-> [doc EXCEPT !.pricing[ticketTypeId].available = @ - quantity]]
    ELSE [success |-> FALSE, doc |-> doc]

\* ------------------------------------------------------ parsePricingData
\* A request body, as far as pricing goes:
\*   pricingOptions   [kind, items]: kind "undefined", "array" or "invalid"
\*                    (a string that JSON.parse rejects); items are records
\*                    [id, name, price, available]
\*   indexed          pricing_<i>_name/_price/_available, position i+1
\*   custom           ticketName_<i>/ticketPrice_<i>/ticketAvailable_<i>
\*   regularPrice, regularAvailable, vipPrice, vipAvailable
\*   pricing          a field named like the schema path itself: absent, or
\*                    the map of ticket types it casts to
NoRawPricing == [present |-> FALSE, map |-> EmptyPricing]
NoOptions == [kind |-> "undefined", items |-> <<>>]
NoLegacy == [regularPrice |-> UndefinedNumber, regularAvailable |-> UndefinedNumber,
             vipPrice |-> UndefinedNumber, vipAvailable |-> UndefinedNumber]
EmptyBody == [pricingOptions |-> NoOptions, indexed |-> <<>>, custom |-> <<>>,
              legacy |-> NoLegacy, pricing |-> NoRawPricing]

\* The local variables of a handler
NoLoc ==
    [request |-> NoRequest, token |-> NoToken, idx |-> 0, event |-> NoEvent, eventId |-> "",
     ticketType |-> "", ticketCount |-> 0, ticketTypeName |-> "",
     pricePerTicket |-> 0, orderId |-> 0, captureData |-> Undefined,
     error |-> "", pricing |-> EmptyPricing, body |-> EmptyBody]

OptionId ==
    <<"option_1", "option_2", "option_3", "option_4", "option_5",
      "option_6", "option_7", "option_8", "option_9", "option_10">>

\* String.prototype.trim on the names the model uses
Trim(name) ==
    CASE name = " Gold " -> "Gold"
      [] name = "  " -> ""
      [] OTHER -> name

ParseFloat(x) == IF x \in {Unparsable, UndefinedNumber} THEN NaN ELSE x
ParseInt(x) == IF x \in {Unparsable, UndefinedNumber} THEN NaN ELSE x

\* Map.prototype.set
MapSet(map, key, value) ==
    [k \in DOMAIN map \cup {key} |-> IF k = key THEN value ELSE map[k]]

\* option.name && option.price !== undefined && option.available !== undefined
HasAllFields(option) ==
    /\ option.name \notin {Undefined, ""}
    /\ option.price # UndefinedNumber
    /\ option.available # UndefinedNumber

PricingEntry(option) ==
    [name |-> Trim(option.name),
     price |-> ParseFloat(option.price),
     available |-> ParseInt(option.available)]

\* pricingOptions.forEach: items i..Len(items) set into map, key option.id
\* when truthy and option_<index + 1> otherwise
RECURSIVE SetOptions(_, _, _)
SetOptions(map, items, i) ==
    IF i > Len(items) THEN map
    ELSE SetOptions(
            IF HasAllFields(items[i])
            THEN MapSet(map,
                        IF items[i].id \notin {Undefined, ""} THEN items[i].id
                        ELSE OptionId[i],
                        PricingEntry(items[i]))
            ELSE map,
            items, i + 1)

\* the loops over index 0..9 of the two flat formats
RECURSIVE SetIndexed(_, _, _)
SetIndexed(map, fields, i) ==
    IF i > Len(fields) \/ i > 10 THEN map
    ELSE SetIndexed(
            IF HasAllFields(fields[i])
            THEN MapSet(map, OptionId[i], PricingEntry(fields[i]))
            ELSE map,
            fields, i + 1)

LegacyPricing(legacy) ==
    LET withRegular ==
            IF legacy.regularPrice # UndefinedNumber /\ legacy.regularAvailable # UndefinedNumber
            THEN MapSet(EmptyPricing, "regular",
                        [name |-> "Regular", price |-> ParseFloat(legacy.regularPrice),
                         available |-> ParseInt(legacy.regularAvailable)])
            ELSE EmptyPricing
    IN  IF legacy.vipPrice # UndefinedNumber /\ legacy.vipAvailable # UndefinedNumber
        THEN MapSet(withRegular, "vip",
                    [name |-> "VIP", price |-> ParseFloat(legacy.vipPrice),
                     available |-> ParseInt(legacy.vipAvailable)])
        ELSE withRegular

parsePricingData(body) ==
    IF body.pricingOptions.kind = "array"
    THEN SetOptions(EmptyPricing, body.pricingOptions.items, 1)
    ELSE LET indexed == SetIndexed(EmptyPricing, body.indexed, 1) IN
         IF DOMAIN indexed # {} THEN indexed
         ELSE LET custom == SetIndexed(EmptyPricing, body.custom, 1) IN
              IF DOMAIN custom # {} THEN custom
              ELSE LegacyPricing(body.legacy)

\* validatePricingData: the `valid` flag of its result.  A comparison with
\* NaN is false, so a NaN price or count passes the sign checks.
validatePricingData(pricingMap) ==
    /\ Cardinality(DOMAIN pricingMap) # 0
    /\ Cardinality(DOMAIN pricingMap) <= MaxPricingOptions
    /\ \A key \in DOMAIN pricingMap :
          /\ pricingMap[key].name \notin {Undefined, ""}
          /\ Trim(pricingMap[key].name) # ""
          /\ ~(pricingMap[key].price # NaN /\ pricingMap[key].price < 0)
          /\ ~(pricingMap[key].available # NaN /\ pricingMap[key].available < 0)

\* The `token` a completion or cancellation request may carry: none, the
\* reference of an order the provider has opened, or one it has not opened
\* (all of those behave alike; the next reference stands for them).
RequestTokens == {o \in OrderIds : o <= nextOrder} \cup {NoToken}

\* A request arrives and is served in the free slot p. The slots are
\* interchangeable, so a request takes the first free one.
Receive(p) ==
    /\ pc[p] = "idle"
    /\ \A q \in Procs : q < p => pc[q] # "idle"
    /\ calls < MaxCalls
    /\ calls' = calls + 1

\* The handler in slot p responds with r and ends.
RespondTo(p, handler, request, r) ==
    /\ pc' = [pc EXCEPT ![p] = "idle"]
    /\ op' = [op EXCEPT ![p] = "none"]
    /\ loc' = [loc EXCEPT ![p] = NoLoc]
    /\ response' = [handler |-> handler, request |-> request, body |-> r]
    /\ UNCHANGED normalizer

Respond(p, handler, r) == RespondTo(p, handler, loc[p].request, r)

\* The handler in slot p suspends at its next await.
Await(p, handler, at, l) ==
    /\ pc' = [pc EXCEPT ![p] = at]
    /\ op' = [op EXCEPT ![p] = handler]
    /\ loc' = [loc EXCEPT ![p] = l]
    /\ response' = NoResponse
    /\ UNCHANGED normalizer

\* ------------------------------------------------------------------ Init
\* No request has been received yet and no transaction exists.
ProcessStarted ==
    /\ txns = <<>>
    /\ nextOrder = 1
    /\ captureCalls = [o \in OrderIds |-> 0]
    /\ op = [p \in Procs |-> "none"]
    /\ pc = [p \in Procs |-> "idle"]
    /\ loc = [p \in Procs |-> NoLoc]
    /\ response = NoResponse
    /\ calls = 0
    /\ adminUpdated = FALSE
    /\ completedTokens = {}

\* No call of the normalizer on its own is under way.
NoCall == [stage |-> "none", body |-> EmptyBody, pricingMap |-> EmptyPricing,
           valid |-> FALSE]

\* The engine serving purchases of an event that is on sale.
Init ==
    /\ events = [e \in EventIds |-> [exists |-> TRUE, pricing |-> InitPricing]]
    /\ ProcessStarted
    /\ normalizer = NoCall

\* ------------------------------------------------------ transaction.save
\* What the three saves of an existing transaction leave in the store: the
\* stored document with the paths modified on the handler's copy replaced.
CompletedTransaction(stored, captureData) ==
    [stored EXCEPT !.status = "COMPLETED",
                   !.paymentStatus = "paid",
                   !.paymentDetails = captureData]

FailedTransactionRetryable(stored, error) ==
    [stored EXCEPT !.status = "PENDING", !.paymentDetails = error]

FailedTransactionNoError(stored, error) ==
    [stored EXCEPT !.status = "FAILED"]

FailedTransaction(stored, error) ==
    [stored EXCEPT !.status = "FAILED", !.paymentDetails = error]

CancelledTransactionRefunded(stored) ==
    [stored EXCEPT !.status = "CANCELLED", !.paymentDetails = "User cancelled payment",
                   !.amount = 0]

CancelledTransactionNoReason(stored) ==
    [stored EXCEPT !.status = "CANCELLED"]

CancelledTransaction(stored) ==
    [stored EXCEPT !.status = "CANCELLED", !.paymentDetails = "User cancelled payment"]

\* ------------------------------------------------- createOrderController
\* Request received, required fields validated, Ticket.findById returns,
\* ticket type / price / availability checked, createOrder issued.
createOrder_received(p, ticketCount) ==
    /\ UNCHANGED <<adminUpdated, completedTokens>>
    /\ Receive(p)
    /\ UNCHANGED <<events, txns, nextOrder, captureCalls>>
    /\ \E ticketId \in EventIds,
          ticketType \in RequestTicketTypes, pricePerTicket \in RequestPrices,
          roundsUp \in BOOLEAN :
        /\ (ticketCount = 0 \/ pricePerTicket = 0)
              => MissingFieldRequest(ticketCount, ticketType, pricePerTicket)
        /\ LET request == [NoRequest EXCEPT !.ticketId = ticketId,
                                         !.ticketCount = ticketCount,
                                         !.ticketType = ticketType,
                                         !.pricePerTicket = pricePerTicket]
           IN
           IF ticketCount = 0 \/ pricePerTicket = 0
           THEN RespondTo(p, "create", request, "400 required")
           ELSE IF ~events[ticketId].exists
           THEN RespondTo(p, "create", request, "404 event")
           ELSE IF ticketType \notin DOMAIN events[ticketId].pricing
           THEN RespondTo(p, "create", request, "400 ticket type")
           ELSE LET ticketTypeData == events[ticketId].pricing[ticketType] IN
                IF PriceMismatch(pricePerTicket, ticketTypeData.price, roundsUp)
                THEN RespondTo(p, "create", request, "400 price mismatch")
                ELSE IF InsufficientTickets(ticketTypeData.available, ticketCount)
                THEN RespondTo(p, "create", request, "400 insufficient")
                ELSE Await(p, "create", "createOrder",
                           [NoLoc EXCEPT !.request = request,
                                         !.eventId = ticketId,
                                         !.ticketType = ticketType,
                                         !.ticketCount = ticketCount,
                                         !.ticketTypeName = ticketTypeData.name,
                                         !.pricePerTicket = pricePerTicket])

createOrder_check(p) == \E ticketCount \in RequestCounts : createOrder_received(p, ticketCount)

createOrder_paypalOrphan(p) ==
    /\ UNCHANGED <<adminUpdated, completedTokens>>
    /\ UNCHANGED calls
    /\ pc[p] = "createOrder"
    /\ UNCHANGED <<events, captureCalls>>
    /\ \/ /\ Respond(p, "create", "500 error")
          /\ txns' = Append(txns, [status |-> "PENDING", paypalOrderId |-> NoToken])
          /\ UNCHANGED nextOrder
       \/ /\ nextOrder <= MaxOrders
          /\ nextOrder' = nextOrder + 1
          /\ UNCHANGED txns
          /\ Await(p, "create", "transaction.save", [loc[p] EXCEPT !.orderId = nextOrder])

\* createOrder(totalPrice) returns from the provider (or throws); on success
\* the Transaction document is built and transaction.save() issued.
createOrder_paypal(p) ==
    /\ UNCHANGED <<adminUpdated, completedTokens>>
    /\ UNCHANGED calls
    /\ pc[p] = "createOrder"
    /\ UNCHANGED <<events, txns, captureCalls>>
    /\ \/ /\ Respond(p, "create", "500 error")
          /\ UNCHANGED nextOrder
       \/ /\ nextOrder <= MaxOrders
          /\ nextOrder' = nextOrder + 1
          /\ Await(p, "create", "transaction.save", [loc[p] EXCEPT !.orderId = nextOrder])

NewTransactionTypeAsName(l) ==
    [ticketId |-> l.eventId,
     paypalOrderId |-> l.orderId,
     amount |-> l.pricePerTicket * l.ticketCount,
     ticketCount |-> l.ticketCount,
     ticketType |-> l.ticketType,
     ticketTypeName |-> l.ticketType,
     pricePerTicket |-> l.pricePerTicket,
     status |-> "PENDING",
     paymentStatus |-> Undefined,
     paymentDetails |-> Undefined]

NewTransaction(l) ==
    [ticketId |-> l.eventId,
     paypalOrderId |-> l.orderId,
     amount |-> l.pricePerTicket * l.ticketCount,
     ticketCount |-> l.ticketCount,
     ticketType |-> l.ticketType,
     ticketTypeName |-> l.ticketTypeName,
     pricePerTicket |-> l.pricePerTicket,
     status |-> "PENDING",
     paymentStatus |-> Undefined,
     paymentDetails |-> Undefined]

createOrder_saveReserving(p) ==
    /\ UNCHANGED <<adminUpdated, completedTokens>>
    /\ UNCHANGED calls
    /\ pc[p] = "transaction.save"
    /\ op[p] = "create"
    /\ txns' = Append(txns, NewTransaction(loc[p]))
    /\ \E approve \in BOOLEAN :
          Respond(p, "create", IF approve THEN "200 approvalUrl" ELSE "500 error")
    /\ events' = [events EXCEPT ![loc[p].eventId] =
                    reduceTicketAvailability(@, loc[p].ticketType, loc[p].ticketCount).doc]
    /\ UNCHANGED <<nextOrder, captureCalls>>

\* transaction.save() inserts the document; the handler then looks up the
\* approve link (a TypeError when the provider sent none) and responds.
createOrder_save(p) ==
    /\ UNCHANGED <<adminUpdated, completedTokens>>
    /\ UNCHANGED calls
    /\ pc[p] = "transaction.save"
    /\ op[p] = "create"
    /\ txns' = Append(txns, NewTransaction(loc[p]))
    /\ \E approve \in BOOLEAN :
          Respond(p, "create", IF approve THEN "200 approvalUrl" ELSE "500 error")
    /\ UNCHANGED <<events, nextOrder, captureCalls>>

\* ----------------------------------------------- completeOrderController
\* Request received; Transaction.findOne({paypalOrderId, status: 'PENDING'})
\* returns; populate('ticketId') is then issued for a document that was found.
completeOrder_find(p) ==
    /\ UNCHANGED <<adminUpdated, completedTokens>>
    /\ Receive(p)
    /\ UNCHANGED <<events, txns, nextOrder, captureCalls>>
    /\ \E token \in RequestTokens :
        IF token = NoToken
        THEN RespondTo(p, "complete", NoRequest, "400 missing token")
        ELSE IF FindPending(token) = 0
        THEN RespondTo(p, "complete", [NoRequest EXCEPT !.token = token],
                       "404 not found or already processed")
        ELSE LET transaction == txns[FindPending(token)] IN
             Await(p, "complete", "populate",
                   [NoLoc EXCEPT !.request = [NoRequest EXCEPT !.token = token],
                                 !.token = token,
                                 !.idx = FindPending(token),
                                 !.eventId = transaction.ticketId,
                                 !.ticketType = transaction.ticketType,
                                 !.ticketCount = transaction.ticketCount])

completeOrder_populateUnchecked(p) ==
    /\ UNCHANGED <<adminUpdated, completedTokens>>
    /\ UNCHANGED calls
    /\ pc[p] = "populate"
    /\ UNCHANGED <<events, txns, nextOrder, captureCalls>>
    /\ Await(p, "complete", "capturePayment",
             [loc[p] EXCEPT !.event = events[loc[p].eventId]])

\* populate returns the event (or null); a missing event throws into the
\* catch block, otherwise capturePayment(token) is issued.
completeOrder_populate(p) ==
    /\ UNCHANGED <<adminUpdated, completedTokens>>
    /\ UNCHANGED calls
    /\ pc[p] = "populate"
    /\ UNCHANGED <<events, txns, nextOrder, captureCalls>>
    /\ IF ~events[loc[p].eventId].exists
       THEN Await(p, "complete", "catch.save", [loc[p] EXCEPT !.error = "event no longer exists"])
       ELSE Await(p, "complete", "capturePayment",
                  [loc[p] EXCEPT !.event = events[loc[p].eventId]])

\* the capture step of a handler that does not save the event
completeOrder_captureNoEventSave(p) ==
    /\ UNCHANGED <<adminUpdated, completedTokens>>
    /\ UNCHANGED calls
    /\ pc[p] = "capturePayment"
    /\ UNCHANGED <<events, txns, nextOrder>>
    /\ captureCalls' = [captureCalls EXCEPT ![loc[p].token] = @ + 1]
    /\ \/ Await(p, "complete", "catch.save", [loc[p] EXCEPT !.error = "capture failed"])
       \/ LET event == loc[p].event
              ticketType == loc[p].ticketType
              ticketCount == loc[p].ticketCount
              reduced == reduceTicketAvailability(event, ticketType, ticketCount)
          IN  IF \/ ticketType \notin DOMAIN event.pricing
                 \/ /\ event.pricing[ticketType].available # NaN
                    /\ event.pricing[ticketType].available < ticketCount
              THEN Await(p, "complete", "catch.save",
                         [loc[p] EXCEPT !.error = "insufficient tickets"])
              ELSE IF ~reduced.success
              THEN Await(p, "complete", "catch.save",
                         [loc[p] EXCEPT !.error = "failed to update availability"])
              ELSE Await(p, "complete", "transaction.save",
                         [loc[p] EXCEPT !.event = reduced.doc, !.captureData = "capture"])

\* capturePayment returns (or throws); availability is checked and reduced
\* on the populated copy and event.save() issued.
completeOrder_capture(p) ==
    /\ UNCHANGED <<adminUpdated, completedTokens>>
    /\ UNCHANGED calls
    /\ pc[p] = "capturePayment"
    /\ UNCHANGED <<events, txns, nextOrder>>
    /\ captureCalls' = [captureCalls EXCEPT ![loc[p].token] = @ + 1]
    /\ \/ Await(p, "complete", "catch.save", [loc[p] EXCEPT !.error = "capture failed"])
       \/ LET event == loc[p].event
              ticketType == loc[p].ticketType
              ticketCount == loc[p].ticketCount
              reduced == reduceTicketAvailability(event, ticketType, ticketCount)
          IN  IF \/ ticketType \notin DOMAIN event.pricing
                 \/ /\ event.pricing[ticketType].available # NaN
                    /\ event.pricing[ticketType].available < ticketCount
              THEN Await(p, "complete", "catch.save",
                         [loc[p] EXCEPT !.error = "insufficient tickets"])
              ELSE IF ~reduced.success
              THEN Await(p, "complete", "catch.save",
                         [loc[p] EXCEPT !.error = "failed to update availability"])
              ELSE Await(p, "complete", "event.save",
                         [loc[p] EXCEPT !.event = reduced.doc, !.captureData = "capture"])

\* event.save() writes the modified path pricing.<ticketType> of the copy.
\* Depending on how the Mongoose release tracks the change this is the one
\* field `available` or the whole map entry; when the document has been
\* deleted meanwhile the write matches nothing and save() either resolves
\* or rejects with DocumentNotFoundError.
SavedEvent(stored, copy, ticketType, wholeEntry) ==
    IF ticketType \in DOMAIN stored.pricing /\ ~wholeEntry
    THEN [stored EXCEPT !.pricing[ticketType].available =
                            copy.pricing[ticketType].available]
    ELSE [stored EXCEPT !.pricing =
            [k \in DOMAIN stored.pricing \cup {ticketType} |->
                IF k # ticketType THEN stored.pricing[k]
                ELSE IF wholeEntry THEN copy.pricing[k]
                ELSE [name |-> Undefined, price |-> NaN,
                      available |-> copy.pricing[k].available]]]

completeOrder_eventSave(p) ==
    /\ UNCHANGED <<adminUpdated, completedTokens>>
    /\ UNCHANGED calls
    /\ pc[p] = "event.save"
    /\ op[p] = "complete"
    /\ UNCHANGED <<txns, nextOrder, captureCalls>>
    /\ IF events[loc[p].eventId].exists
       THEN /\ \E wholeEntry \in BOOLEAN :
                 events' = [events EXCEPT ![loc[p].eventId] =
                     SavedEvent(@, loc[p].event, loc[p].ticketType, wholeEntry)]
            /\ Await(p, "complete", "transaction.save", loc[p])
       ELSE /\ UNCHANGED events
            /\ \/ Await(p, "complete", "transaction.save", loc[p])
               \/ Await(p, "complete", "catch.save",
                        [loc[p] EXCEPT !.error = "document not found"])

\* transaction.save() writes the modified paths status, paymentStatus and
\* paymentDetails of the transaction found earlier; the handler responds.
completeOrder_txnSave(p) ==
    /\ UNCHANGED adminUpdated
    /\ completedTokens' = completedTokens \cup {loc[p].token}
    /\ UNCHANGED calls
    /\ pc[p] = "transaction.save"
    /\ op[p] = "complete"
    /\ txns' = [txns EXCEPT ![loc[p].idx] = CompletedTransaction(@, loc[p].captureData)]
    /\ Respond(p, "complete", "200 payment successful")
    /\ UNCHANGED <<events, nextOrder, captureCalls>>

\* catch block: transaction.save() writes status FAILED and the error.
completeOrder_catch(p) ==
    /\ UNCHANGED adminUpdated
    /\ completedTokens' = completedTokens \cup {loc[p].token}
    /\ UNCHANGED calls
    /\ pc[p] = "catch.save"
    /\ txns' = [txns EXCEPT ![loc[p].idx] = FailedTransaction(@, loc[p].error)]
    /\ Respond(p, "complete", "500 error")
    /\ UNCHANGED <<events, nextOrder, captureCalls>>

\* ------------------------------------------------- cancelOrderController
cancelOrder_find(p) ==
    /\ UNCHANGED <<adminUpdated, completedTokens>>
    /\ Receive(p)
    /\ UNCHANGED <<events, txns, nextOrder, captureCalls>>
    /\ \E token \in RequestTokens :
        IF token = NoToken \/ FindPending(token) = 0
        THEN RespondTo(p, "cancel", [NoRequest EXCEPT !.token = token],
                       "200 cancellation processed")
        ELSE Await(p, "cancel", "transaction.save",
                   [NoLoc EXCEPT !.request = [NoRequest EXCEPT !.token = token],
                                 !.token = token, !.idx = FindPending(token)])

cancelOrder_save(p) ==
    /\ UNCHANGED <<adminUpdated, completedTokens>>
    /\ UNCHANGED calls
    /\ pc[p] = "transaction.save"
    /\ op[p] = "cancel"
    /\ txns' = [txns EXCEPT ![loc[p].idx] = CancelledTransaction(@)]
    /\ Respond(p, "cancel", "200 cancelled")
    /\ UNCHANGED <<events, nextOrder, captureCalls>>

\* ------------------------------------------------------------ updateEvent
\* Request bodies an organiser sends
UpdateBodies ==
    { \* pricingOptions: rename, reprice and restock the VIP ticket type
      [EmptyBody EXCEPT !.pricingOptions =
          [kind |-> "array",
           items |-> <<[id |-> "vip", name |-> " Gold ", price |-> 12, available |-> 2]>>]],
      \* pricing_0_*: replace the pricing by one option without an id
      [EmptyBody EXCEPT !.indexed =
          <<[name |-> "Early Bird", price |-> 10, available |-> 1]>>],
      \* legacy fields with a negative price
      [EmptyBody EXCEPT !.legacy.vipPrice = -1, !.legacy.vipAvailable = 1],
      \* no pricing fields at all
      EmptyBody }

\* A Number path cannot hold NaN: casting it fails (CastError).
CastFails(pricingMap) ==
    \E key \in DOMAIN pricingMap :
        pricingMap[key].price = NaN \/ pricingMap[key].available = NaN

\* Request with `body` received, Event.findById returns, pricing parsed and
\* validated, Event.findByIdAndUpdate issued.
updateEvent_received(p, body) ==
    /\ Receive(p)
    /\ UNCHANGED <<events, txns, nextOrder, captureCalls, adminUpdated, completedTokens>>
    /\ \E eventId \in EventIds :
        LET pricingMap == parsePricingData(body) IN
        IF ~events[eventId].exists
        THEN Respond(p, "updateEvent", "404 event")
        ELSE IF DOMAIN pricingMap # {} /\ ~validatePricingData(pricingMap)
        THEN Respond(p, "updateEvent", "400 invalid pricing")
        ELSE Await(p, "updateEvent", "findByIdAndUpdate",
                   [NoLoc EXCEPT !.eventId = eventId, !.pricing = pricingMap,
                                 !.body = body])

updateEvent_find(p) == \E body \in UpdateBodies : updateEvent_received(p, body)

\* updateData.pricing: the parsed map when it has entries, else the `pricing`
\* field of the body itself, which { ...req.body } carried over
UpdatedPricing(l, stored) ==
    IF DOMAIN l.pricing # {} THEN l.pricing
    ELSE IF l.body.pricing.present THEN l.body.pricing.map
    ELSE stored

\* findByIdAndUpdate applies updateData without running the schema's
\* validators: updateData.pricing, when there is one, replaces the stored
\* map.  It returns null for a deleted event and event.toObject() then
\* throws into the catch block; a value that cannot be cast throws as well.
updateEvent_write(p) ==
    /\ pc[p] = "findByIdAndUpdate"
    /\ UNCHANGED <<txns, nextOrder, captureCalls, calls, completedTokens>>
    /\ IF ~events[loc[p].eventId].exists \/ CastFails(loc[p].pricing)
       THEN /\ Respond(p, "updateEvent", "400 error")
            /\ UNCHANGED <<events, adminUpdated>>
       ELSE /\ events' = [events EXCEPT ![loc[p].eventId].pricing =
                            UpdatedPricing(loc[p], @)]
            /\ adminUpdated' = (adminUpdated \/ DOMAIN loc[p].pricing # {}
                                             \/ loc[p].body.pricing.present)
            /\ Respond(p, "updateEvent", "200 event")

\* ------------------------------------------------------------ deleteEvent
deleteEvent(p) ==
    /\ Receive(p)
    /\ UNCHANGED <<txns, nextOrder, captureCalls, completedTokens>>
    /\ \E eventId \in EventIds :
        IF ~events[eventId].exists
        THEN /\ Respond(p, "deleteEvent", "404 event")
             /\ UNCHANGED <<events, adminUpdated>>
        ELSE /\ events' = [events EXCEPT ![eventId] = NoEvent]
             /\ adminUpdated' = TRUE
             /\ Respond(p, "deleteEvent", "200 deleted")

Next ==
    \E p \in Procs :
        \/ createOrder_check(p)
        \/ createOrder_paypal(p)
        \/ createOrder_save(p)
        \/ completeOrder_find(p)
        \/ completeOrder_populate(p)
        \/ completeOrder_capture(p)
        \/ completeOrder_eventSave(p)
        \/ completeOrder_txnSave(p)
        \/ completeOrder_catch(p)
        \/ cancelOrder_find(p)
        \/ cancelOrder_save(p)
        \/ updateEvent_find(p)
        \/ updateEvent_write(p)
        \/ deleteEvent(p)

Spec == Init /\ [][Next]_vars

\* The steps of the handler in slot p that follow an await.  The event loop
\* runs every continuation whose awaited call has settled, and the database
\* and provider calls settle, so these steps are taken when they can be; the
\* arrival of requests is not.
Continue(p) ==
    \/ createOrder_paypal(p)
    \/ createOrder_save(p)
    \/ completeOrder_populate(p)
    \/ completeOrder_capture(p)
    \/ completeOrder_eventSave(p)
    \/ completeOrder_txnSave(p)
    \/ completeOrder_catch(p)
    \/ cancelOrder_save(p)
    \/ updateEvent_write(p)

LiveSpec == Init /\ [][Next]_vars /\ \A p \in Procs : WF_vars(Continue(p))

\* --------------------------------------------- the organiser's requests
\* Request bodies of createEvent and updateEvent
EventBodies ==
    UpdateBodies \cup
    { \* two options without id, the second without a name
      [EmptyBody EXCEPT !.pricingOptions =
          [kind |-> "array",
           items |-> <<[id |-> Undefined, name |-> "Early Bird", price |-> 10, available |-> 1],
                       [id |-> Undefined, name |-> "", price |-> 5, available |-> 5]>>]],
      \* a price that is no number
      [EmptyBody EXCEPT !.pricingOptions =
          [kind |-> "array",
           items |-> <<[id |-> "vip", name |-> "VIP", price |-> Unparsable, available |-> 1]>>]],
      \* a name of blanks
      [EmptyBody EXCEPT !.pricingOptions =
          [kind |-> "array",
           items |-> <<[id |-> "vip", name |-> "  ", price |-> 1, available |-> 1]>>]],
      \* a `pricing` field holding no ticket type
      [EmptyBody EXCEPT !.pricing = [present |-> TRUE, map |-> EmptyPricing]],
      \* a `pricing` field holding a negative price
      [EmptyBody EXCEPT !.pricing =
          [present |-> TRUE,
           map |-> [k \in {"vip"} |-> [name |-> "VIP", price |-> -5, available |-> 1]]]] }

\* createEvent: request received, pricing parsed and validated, the Event
\* document built (its _id is assigned then) and event.save() issued.
createEvent_check(p) ==
    /\ Receive(p)
    /\ UNCHANGED <<events, txns, nextOrder, captureCalls, adminUpdated, completedTokens>>
    /\ \E body \in EventBodies, eventId \in EventIds :
        /\ ~events[eventId].exists
        /\ \A q \in Procs : ~(op[q] = "createEvent" /\ loc[q].eventId = eventId)
        /\ LET pricingMap == parsePricingData(body) IN
           IF ~validatePricingData(pricingMap)
           THEN Respond(p, "createEvent", "400 invalid pricing")
           ELSE Await(p, "createEvent", "event.save",
                      [NoLoc EXCEPT !.eventId = eventId, !.pricing = pricingMap,
                                    !.body = body])

\* event.save() validates and inserts the document; a value that cannot be
\* cast fails the validation and the catch block answers.
createEvent_save(p) ==
    /\ pc[p] = "event.save"
    /\ op[p] = "createEvent"
    /\ UNCHANGED <<txns, nextOrder, captureCalls, calls, adminUpdated, completedTokens>>
    /\ IF CastFails(loc[p].pricing)
       THEN /\ Respond(p, "createEvent", "500 error")
            /\ UNCHANGED events
       ELSE /\ events' = [events EXCEPT ![loc[p].eventId] =
                            [exists |-> TRUE, pricing |-> loc[p].pricing]]
            /\ Respond(p, "createEvent", "201 event")

updateEvent_findAny(p) == \E body \in EventBodies : updateEvent_received(p, body)

\* The event collection is empty.
EventInit ==
    /\ events = [e \in EventIds |-> NoEvent]
    /\ ProcessStarted
    /\ normalizer = NoCall

EventNext ==
    \E p \in Procs :
        \/ createEvent_check(p)
        \/ createEvent_save(p)
        \/ updateEvent_findAny(p)
        \/ updateEvent_write(p)
        \/ deleteEvent(p)

EventSpec == EventInit /\ [][EventNext]_vars

\* ------------------------------------------- the normalizer on its own
\* Values of the pricingOptions field
ParseOptionLists ==
    { NoOptions,
      \* a string that JSON.parse rejects
      [kind |-> "invalid", items |-> <<>>],
      \* an empty array
      [kind |-> "array", items |-> <<>>],
      [kind |-> "array",
       items |-> <<[id |-> "vip", name |-> " Gold ", price |-> 12, available |-> 2]>>],
      \* two options without id, the second without a name
      [kind |-> "array",
       items |-> <<[id |-> Undefined, name |-> "Early Bird", price |-> 10, available |-> 1],
                   [id |-> Undefined, name |-> "", price |-> 5, available |-> 5]>>],
      \* a price that is no number
      [kind |-> "array",
       items |-> <<[id |-> "vip", name |-> "VIP", price |-> Unparsable, available |-> 1]>>],
      \* a name of blanks
      [kind |-> "array",
       items |-> <<[id |-> "vip", name |-> "  ", price |-> 1, available |-> 1]>>],
      \* an explicit id that is the id synthesized for the next option
      [kind |-> "array",
       items |-> <<[id |-> "option_2", name |-> "Balcony", price |-> 8, available |-> 3],
                   [id |-> Undefined, name |-> "Stalls", price |-> 6, available |-> 4]>>] }

\* Values of the pricing_<i>_* fields
ParseIndexedLists ==
    { <<>>,
      <<[name |-> "Early Bird", price |-> 10, available |-> 1]>>,
      \* nothing at index 0, a negative count at index 1
      <<[name |-> Undefined, price |-> UndefinedNumber, available |-> UndefinedNumber],
        [name |-> "Late", price |-> 20, available |-> -1]>> }

\* Values of the ticketName_<i> / ticketPrice_<i> / ticketAvailable_<i> fields
ParseCustomLists ==
    { <<>>,
      <<[name |-> "Standard", price |-> 5, available |-> Unparsable]>> }

\* Values of the legacy fields
ParseLegacies ==
    { NoLegacy,
      [NoLegacy EXCEPT !.regularPrice = 10, !.regularAvailable = 5],
      [NoLegacy EXCEPT !.vipPrice = -1, !.vipAvailable = 1],
      [NoLegacy EXCEPT !.regularPrice = 10, !.regularAvailable = 5,
                       !.vipPrice = 20, !.vipAvailable = 1],
      \* a price without its count
      [NoLegacy EXCEPT !.regularPrice = 10] }

ParseBodies ==
    { [pricingOptions |-> o, indexed |-> i, custom |-> c, legacy |-> l,
       pricing |-> NoRawPricing] :
        o \in ParseOptionLists, i \in ParseIndexedLists,
        c \in ParseCustomLists, l \in ParseLegacies }

\* A request body is about to be normalized.
ParseInit ==
    /\ events = [e \in EventIds |-> [exists |-> TRUE, pricing |-> InitPricing]]
    /\ ProcessStarted
    /\ \E body \in ParseBodies :
          normalizer = [NoCall EXCEPT !.stage = "received", !.body = body]

\* const pricingMap = parsePricingData(req.body)
Call_parsePricingData ==
    /\ normalizer.stage = "received"
    /\ normalizer' = [normalizer EXCEPT !.stage = "parsed",
                                        !.pricingMap = parsePricingData(normalizer.body)]
    /\ UNCHANGED <<events, txns, nextOrder, captureCalls, op, pc, loc, response, calls,
                   adminUpdated, completedTokens>>

\* const validation = validatePricingData(pricingMap)
Call_validatePricingData ==
    /\ normalizer.stage = "parsed"
    /\ normalizer' = [normalizer EXCEPT !.stage = "validated",
                                        !.valid = validatePricingData(normalizer.pricingMap)]
    /\ UNCHANGED <<events, txns, nextOrder, captureCalls, op, pc, loc, response, calls,
                   adminUpdated, completedTokens>>

ParseNext ==
    \/ Call_parsePricingData
    \/ Call_validatePricingData

ParseSpec == ParseInit /\ [][ParseNext]_vars

\* ------------------------------------------------------- the read side
\* getTransactionDetails and getPaymentHistory read the Transaction
\* collection and answer; they write nothing.  They are taken here against a
\* store that holds the transactions of two buyers in any status the schema
\* allows (PAID is written by the card payment flow).
BuyerIds == {"u1", "u2"}
HistoryStatuses == {"PENDING", "COMPLETED", "FAILED", "CANCELLED", "PAID"}
\* ticketCount of the i-th stored transaction: 2, 1, 2, ...
HistoryCount(i) == 1 + (i % 2)

NoTransaction ==
    [transactionId |-> 0, userId |-> Undefined, ticketId |-> "", paypalOrderId |-> NoToken,
     amount |-> 0, ticketCount |-> 0, ticketType |-> "", ticketTypeName |-> "",
     pricePerTicket |-> 0, status |-> Undefined, paymentStatus |-> Undefined,
     paymentDetails |-> Undefined]

\* The i-th transaction of the store: bought by userId at 10 a ticket
StoredTransaction(i, userId, status) ==
    LET ticketCount == HistoryCount(i) IN
    [transactionId |-> i, userId |-> userId, ticketId |-> "e1", paypalOrderId |-> i,
     amount |-> 10 * ticketCount, ticketCount |-> ticketCount, ticketType |-> "vip",
     ticketTypeName |-> "VIP", pricePerTicket |-> 10, status |-> status,
     paymentStatus |-> IF status = "COMPLETED" THEN "paid" ELSE Undefined,
     paymentDetails |-> IF status = "COMPLETED" THEN "capture" ELSE Undefined]

HistoryInit ==
    /\ events = [e \in EventIds |-> [exists |-> TRUE, pricing |-> InitPricing]]
    /\ \E n \in 0..MaxHistory :
          \E c \in [1..n -> BuyerIds \X HistoryStatuses] :
              txns = [i \in 1..n |-> StoredTransaction(i, c[i][1], c[i][2])]
    /\ nextOrder = 1
    /\ captureCalls = [o \in OrderIds |-> 0]
    /\ op = [p \in Procs |-> "none"]
    /\ pc = [p \in Procs |-> "idle"]
    /\ loc = [p \in Procs |-> NoLoc]
    /\ response = NoResponse
    /\ calls = 0
    /\ adminUpdated = FALSE
    /\ completedTokens = {}
    /\ normalizer = NoCall

\* Transaction.findOne({ transactionId, userId }): index of the first match,
\* 0 when there is none
FindOneByTransactionId(transactionId, userId) ==
    LET matches == {i \in 1..Len(txns) : txns[i].transactionId = transactionId} IN
    IF matches = {} THEN 0 ELSE CHOOSE i \in matches : \A j \in matches : i <= j

FindOneTransaction(transactionId, userId) ==
    LET matches == {i \in 1..Len(txns) : /\ txns[i].transactionId = transactionId
                                         /\ txns[i].userId = userId}
    IN  IF matches = {} THEN 0 ELSE CHOOSE i \in matches : \A j \in matches : i <= j

getTransactionDetails ==
    /\ \E userId \in BuyerIds, transactionId \in 1..(MaxHistory + 1) :
          LET found == FindOneTransaction(transactionId, userId) IN
          response' =
              [handler |-> "getTransactionDetails",
               request |-> [userId |-> userId, transactionId |-> transactionId],
               body |-> IF found = 0
                        THEN [status |-> "404 Transaction not found",
                              transaction |-> NoTransaction]
                        ELSE [status |-> "200", transaction |-> txns[found]]]
    /\ UNCHANGED <<events, txns, nextOrder, captureCalls, op, pc, loc, calls,
                   adminUpdated, completedTokens, normalizer>>

\* GET /payment-history query strings
HistoryPages == {1, 2}
HistoryLimits == {1, 10}
HistoryStatusFilters == {Undefined, "COMPLETED", "PAID"}

\* .sort({ createdAt: -1 }): newest first
NewestFirst(s) == [i \in 1..Len(s) |-> s[Len(s) + 1 - i]]

\* .skip(skip).limit(limit)
SkipLimit(s, skip, limit) ==
    SubSeq(s, skip + 1, IF skip + limit < Len(s) THEN skip + limit ELSE Len(s))

\* Transaction.find(filter) with filter = { userId } and, when the query
\* names one, status
FindHistory(userId, status, page, limit) ==
    LET Matches(t) == /\ t.userId = userId
                      /\ (status # Undefined => t.status = status)
    IN  SkipLimit(NewestFirst(SelectSeq(txns, Matches)), (page - 1) * limit, limit)

RECURSIVE SumAmount(_)
SumAmount(s) == IF s = <<>> THEN 0 ELSE Head(s).amount + SumAmount(Tail(s))

RECURSIVE SumTicketCount(_)
SumTicketCount(s) == IF s = <<>> THEN 0 ELSE Head(s).ticketCount + SumTicketCount(Tail(s))

Summary(completedTransactions) ==
    [totalSpent |-> SumAmount(completedTransactions),
     totalTickets |-> SumTicketCount(completedTransactions),
     completedTransactions |-> Len(completedTransactions)]

\* the summary subset of the routed controller
IsCompleted(t) == t.status = "COMPLETED"

\* the summary subset of controller/PaymentHistory.js
IsCompletedOrPaid(t) == t.status = "COMPLETED" \/ t.status = "PAID"

HistoryResponse(handler, userId, status, page, limit, completedTransactions) ==
    [handler |-> handler,
     request |-> [userId |-> userId, status |-> status, page |-> page, limit |-> limit],
     body |-> [transactions |-> FindHistory(userId, status, page, limit),
               summary |-> Summary(completedTransactions)]]

\* the handler behind GET /payment-history
getPaymentHistory ==
    /\ \E userId \in BuyerIds, status \in HistoryStatusFilters,
          page \in HistoryPages, limit \in HistoryLimits :
          response' = HistoryResponse("getPaymentHistory", userId, status, page, limit,
                          SelectSeq(FindHistory(userId, status, page, limit), IsCompleted))
    /\ UNCHANGED <<events, txns, nextOrder, captureCalls, op, pc, loc, calls,
                   adminUpdated, completedTokens, normalizer>>

\* the handler of the same name in controller/PaymentHistory.js
PaymentHistory_getPaymentHistory ==
    /\ \E userId \in BuyerIds, status \in HistoryStatusFilters,
          page \in HistoryPages, limit \in HistoryLimits :
          response' = HistoryResponse("PaymentHistory.getPaymentHistory", userId, status,
                          page, limit,
                          SelectSeq(FindHistory(userId, status, page, limit),
                                    IsCompletedOrPaid))
    /\ UNCHANGED <<events, txns, nextOrder, captureCalls, op, pc, loc, calls,
                   adminUpdated, completedTokens, normalizer>>

HistoryNext ==
    \/ getTransactionDetails
    \/ getPaymentHistory
    \/ PaymentHistory_getPaymentHistory

HistorySpec == HistoryInit /\ [][HistoryNext]_vars

\* ------------------------------------------------- purchases of any count
\* Create and Complete on their own, with the ticketCount of the request
\* ranging over negative numbers as well.
SignedCounts == {0 - 1, 0, 1}

createOrder_checkSigned(p) ==
    \E ticketCount \in SignedCounts : createOrder_received(p, ticketCount)

CountNext ==
    \E p \in Procs :
        \/ createOrder_checkSigned(p)
        \/ createOrder_paypal(p)
        \/ createOrder_save(p)
        \/ completeOrder_find(p)
        \/ completeOrder_populate(p)
        \/ completeOrder_capture(p)
        \/ completeOrder_eventSave(p)
        \/ completeOrder_txnSave(p)
        \/ completeOrder_catch(p)

CountSpec == Init /\ [][CountNext]_vars

\* ------------------------------------------ reduceTicketAvailability alone
\* The document method called once on an event document of one or two ticket
\* types, for a ticket type that the document has or lacks, with a quantity
\* below, within and above what is left.
ReduceTicketTypeIds == {"vip", "regular", "gold"}
ReduceQuantities == (0 - 1)..(MaxAvailable + 1)

ReducePricings ==
    UNION {[ids -> {[name |-> "Seat", price |-> 10, available |-> a] : a \in 0..MaxAvailable}] :
              ids \in {{"vip"}, {"vip", "regular"}}}

ReduceInit ==
    /\ \E pricing \in ReducePricings :
          events = [e \in EventIds |-> [exists |-> TRUE, pricing |-> pricing]]
    /\ ProcessStarted
    /\ normalizer = [NoCall EXCEPT !.stage = "document"]

\* const success = event.reduceTicketAvailability(ticketTypeId, quantity)
Call_reduceTicketAvailability ==
    /\ normalizer.stage = "document"
    /\ \E e \in EventIds, ticketTypeId \in ReduceTicketTypeIds, quantity \in ReduceQuantities :
          LET reduced == reduceTicketAvailability(events[e], ticketTypeId, quantity) IN
          /\ events' = [events EXCEPT ![e] = reduced.doc]
          /\ response' = [handler |-> "reduceTicketAvailability",
                          request |-> [ticketId |-> e, ticketTypeId |-> ticketTypeId,
                                       quantity |-> quantity],
                          body |-> reduced.success]
    /\ normalizer' = [normalizer EXCEPT !.stage = "reduced"]
    /\ UNCHANGED <<txns, nextOrder, captureCalls, op, pc, loc, calls, adminUpdated,
                   completedTokens>>

ReduceNext ==
    \/ Call_reduceTicketAvailability

ReduceSpec == ReduceInit /\ [][ReduceNext]_vars

\* ================================================================ claims
TerminalStatuses == {"COMPLETED", "FAILED", "CANCELLED"}
Idle == \A p \in Procs : pc[p] = "idle"

\* tickets of one type of one event held by COMPLETED transactions 1..n
RECURSIVE CompletedTickets(_, _, _)
CompletedTickets(eventId, ticketType, n) ==
    IF n = 0 THEN 0
    ELSE CompletedTickets(eventId, ticketType, n - 1)
         + (IF /\ txns[n].ticketId = eventId
               /\ txns[n].ticketType = ticketType
               /\ txns[n].status = "COMPLETED"
            THEN txns[n].ticketCount ELSE 0)

\* C1 -- No overselling: as long as no organiser update or delete has been
\* applied, the tickets held by COMPLETED transactions of a ticket type never
\* exceed the count the type started with.
C1_NoOverselling ==
    ~adminUpdated =>
        \A e \in EventIds, k \in DOMAIN InitPricing :
            CompletedTickets(e, k, Len(txns)) <= InitPricing[k].available

\* C2 -- Last-unit race: two transactions of one VIP ticket each were created
\* against the single remaining VIP ticket; once both have been completed or
\* failed (and the provider captured whatever it was asked to capture),
\* exactly one is COMPLETED, the other FAILED and no ticket remains.
C2_LastUnitRace ==
    ( /\ ~adminUpdated
      /\ Idle
      /\ Len(txns) = 2
      /\ \A i \in 1..2 :
            /\ txns[i].ticketType = "vip"
            /\ txns[i].ticketCount = 1
            /\ txns[i].status \in {"COMPLETED", "FAILED"}
            /\ txns[i].paymentDetails # "capture failed" )
    => ( /\ Cardinality({i \in 1..2 : txns[i].status = "COMPLETED"}) = 1
         /\ Cardinality({i \in 1..2 : txns[i].status = "FAILED"}) = 1
         /\ events["e1"].pricing["vip"].available = 0 )

\* C3 -- Exactly-once decrement: with no organiser update applied and no
\* handler in flight, the tickets a type has lost since the start are the
\* tickets held by its COMPLETED transactions.  Stated for the runs in which
\* no order was confirmed twice and nothing was cancelled, so that only the
\* decrement itself is at stake.
C3_Conservation ==
    ( /\ ~adminUpdated
      /\ Idle
      /\ \A o \in OrderIds : captureCalls[o] <= 1
      /\ \A i \in 1..Len(txns) : txns[i].status # "CANCELLED" ) =>
        \A e \in EventIds, k \in DOMAIN InitPricing :
            InitPricing[k].available - events[e].pricing[k].available
                = CompletedTickets(e, k, Len(txns))

\* C4 -- Sequential idempotence of Complete: a Complete request received
\* after an earlier Complete for the same order reference found the PENDING
\* transaction and responded is answered at once with 'not found or already
\* processed'; it calls the provider zero times and leaves the events and
\* every transaction as they are.
C4_SequentialIdempotence ==
    [][ \A token \in completedTokens :
          ( /\ calls' = calls + 1
            /\ \/ response'.handler = "complete" /\ response'.request.token = token
               \/ \E p \in Procs : /\ pc[p] = "idle"
                                   /\ op'[p] = "complete"
                                   /\ loc'[p].request.token = token )
          => ( /\ response'.handler = "complete"
               /\ response'.body = "404 not found or already processed"
               /\ txns' = txns
               /\ events' = events
               /\ captureCalls' = captureCalls
               /\ nextOrder' = nextOrder ) ]_vars

\* a second Complete for an already completed order has just been answered
C4_Witness ==
    /\ response.handler = "complete"
    /\ response.body = "404 not found or already processed"
    /\ response.request.token \in completedTokens
    /\ \E i \in 1..Len(txns) : /\ txns[i].paypalOrderId = response.request.token
                               /\ txns[i].status = "COMPLETED"

\* C5 -- Concurrent duplicate confirmation: the provider is asked to capture
\* an order at most once, and the one transaction of an order takes its
\* ticketCount out of the available count at most once.
C5_CaptureAtMostOnce ==
    /\ \A o \in OrderIds : captureCalls[o] <= 1
    /\ (~adminUpdated /\ Len(txns) = 1) =>
          InitPricing[txns[1].ticketType].available
            - events[txns[1].ticketId].pricing[txns[1].ticketType].available
              <= txns[1].ticketCount

\* C6 -- Terminal finality: a transaction whose stored status is COMPLETED,
\* FAILED or CANCELLED keeps that status in every later step.
C6_TerminalFinality ==
    [][ \A i \in 1..Len(txns) :
          txns[i].status \in TerminalStatuses => txns'[i].status = txns[i].status ]_vars

\* The purchase request received in the step, if the step received one
CreateReceived ==
    /\ calls' = calls + 1
    /\ \/ response'.handler = "create"
       \/ \E p \in Procs : pc[p] = "idle" /\ op'[p] = "create"

ReceivedRequest ==
    IF response'.handler = "create" THEN response'.request
    ELSE loc'[CHOOSE p \in Procs : pc[p] = "idle" /\ op'[p] = "create"].request

StoredTicketType(request) == events[request.ticketId].pricing[request.ticketType]

RequestHitsTicketType(request) ==
    /\ events[request.ticketId].exists
    /\ request.ticketType \in DOMAIN events[request.ticketId].pricing

PurchaseStateUnchanged ==
    /\ txns' = txns
    /\ events' = events
    /\ nextOrder' = nextOrder
    /\ captureCalls' = captureCalls

\* C7 -- Price integrity: a purchase request whose price differs from the
\* stored price of its ticket type by more than the tolerance is rejected in
\* the step that receives it: no provider order is opened, no transaction is
\* created and the inventory is unchanged.
C7_PriceIntegrity ==
    [][ ( /\ CreateReceived
          /\ RequestHitsTicketType(ReceivedRequest)
          /\ StoredTicketType(ReceivedRequest).price # NaN
          /\ Abs(ReceivedRequest.pricePerTicket
                 - StoredTicketType(ReceivedRequest).price) > Tolerance )
        => ( /\ response'.handler = "create"
             /\ response'.body \in {"400 required", "400 price mismatch"}
             /\ (ReceivedRequest.pricePerTicket # 0 /\ ReceivedRequest.ticketCount # 0)
                    => response'.body = "400 price mismatch"
             /\ PurchaseStateUnchanged ) ]_vars

\* a request priced beyond the tolerance has just been rejected
C7_Witness ==
    /\ response.handler = "create"
    /\ response.body = "400 price mismatch"
    /\ response.request.pricePerTicket = 13
    /\ events["e1"].exists
    /\ "vip" \in DOMAIN events["e1"].pricing
    /\ events["e1"].pricing["vip"].price = 10
    /\ response.request.ticketType = "vip"

\* C8 -- A purchase request for more tickets than its ticket type has
\* available is rejected in the step that receives it, with the
\* insufficient-inventory error when it passed the required-field and price
\* checks: no provider order is opened, no transaction is created and the
\* inventory is unchanged.
C8_InsufficientRejected ==
    [][ ( /\ CreateReceived
          /\ RequestHitsTicketType(ReceivedRequest)
          /\ StoredTicketType(ReceivedRequest).available # NaN
          /\ ReceivedRequest.ticketCount > StoredTicketType(ReceivedRequest).available )
        => ( /\ response'.handler = "create"
             /\ response'.body \in {"400 required", "400 price mismatch", "400 insufficient"}
             /\ ( /\ ReceivedRequest.pricePerTicket # 0
                  /\ ReceivedRequest.ticketCount # 0
                  /\ StoredTicketType(ReceivedRequest).price # NaN
                  /\ Abs(ReceivedRequest.pricePerTicket
                         - StoredTicketType(ReceivedRequest).price) < Tolerance )
                => response'.body = "400 insufficient"
             /\ PurchaseStateUnchanged ) ]_vars

\* a request for two tickets when one is left has just been rejected
C8_Witness ==
    /\ response.handler = "create"
    /\ response.body = "400 insufficient"
    /\ response.request.ticketCount = 2
    /\ response.request.ticketType = "vip"
    /\ events["e1"].exists
    /\ "vip" \in DOMAIN events["e1"].pricing
    /\ events["e1"].pricing["vip"].available = 1

\* C9 -- Every transaction Create inserts is PENDING, carries an order
\* reference the provider issued and no other transaction carries, and has
\* the name its ticket type had when Create read the event (which is the
\* stored name as long as no organiser update has been applied); amount =
\* ticketCount x pricePerTicket holds for every stored transaction.
C9_CreatedTransaction ==
    [][ /\ \A i \in 1..Len(txns') :
              txns'[i].amount = txns'[i].ticketCount * txns'[i].pricePerTicket
        /\ \A i \in (Len(txns) + 1)..Len(txns') :
              /\ txns'[i].status = "PENDING"
              /\ txns'[i].paypalOrderId \in 1..(nextOrder - 1)
              /\ \A j \in 1..Len(txns) : txns[j].paypalOrderId # txns'[i].paypalOrderId
              /\ \E p \in Procs :
                    /\ op[p] = "create" /\ pc[p] = "transaction.save" /\ pc'[p] = "idle"
                    /\ txns'[i].paypalOrderId = loc[p].orderId
                    /\ txns'[i].ticketTypeName = loc[p].ticketTypeName
              /\ ~adminUpdated =>
                    txns'[i].ticketTypeName
                        = events[txns'[i].ticketId].pricing[txns'[i].ticketType].name ]_vars

\* a transaction for two tickets exists: its amount is twice its unit price
C9_Witness ==
    \E i \in 1..Len(txns) :
        /\ txns[i].status = "PENDING"
        /\ txns[i].ticketCount = 2
        /\ txns[i].amount = 2 * txns[i].pricePerTicket
        /\ txns[i].ticketTypeName = "Gold"

Snapshot(t) ==
    <<t.amount, t.pricePerTicket, t.ticketTypeName, t.ticketType, t.ticketCount>>

\* C10 -- Snapshot immutability: no step changes the amount, pricePerTicket,
\* ticketTypeName, ticketType or ticketCount of a stored transaction.
C10_SnapshotImmutable ==
    [][ \A i \in 1..Len(txns) : Snapshot(txns'[i]) = Snapshot(txns[i]) ]_vars

\* a transaction bought at 10 has been completed or cancelled and the
\* organiser has since renamed and repriced its ticket type
C10_Witness ==
    \E i \in 1..Len(txns) :
        /\ txns[i].status \in {"COMPLETED", "CANCELLED"}
        /\ txns[i].pricePerTicket = 10
        /\ adminUpdated
        /\ events[txns[i].ticketId].exists
        /\ txns[i].ticketType \in DOMAIN events[txns[i].ticketId].pricing
        /\ events[txns[i].ticketId].pricing[txns[i].ticketType].price = 12
        /\ events[txns[i].ticketId].pricing[txns[i].ticketType].name # txns[i].ticketTypeName

\* The cancellation request received in the step, if the step received one
CancelReceived ==
    /\ calls' = calls + 1
    /\ \/ response'.handler = "cancel"
       \/ \E p \in Procs : pc[p] = "idle" /\ op'[p] = "cancel"

CancelToken ==
    IF response'.handler = "cancel" THEN response'.request.token
    ELSE loc'[CHOOSE p \in Procs : pc[p] = "idle" /\ op'[p] = "cancel"].request.token

\* C11 -- Cancel: a cancellation request whose reference is missing or matches
\* no PENDING transaction is acknowledged with 'Order cancellation processed'
\* and changes no transaction; one whose reference matches a PENDING
\* transaction goes on to save that transaction, and the save leaves it
\* CANCELLED with the reason recorded and every other transaction as it was.
\* No step of a cancellation changes an event.
C11_CancelContract ==
    [][ /\ CancelReceived =>
              /\ events' = events
              /\ txns' = txns
              /\ IF CancelToken = NoToken \/ PendingMatches(CancelToken) = {}
                 THEN /\ response'.handler = "cancel"
                      /\ response'.body = "200 cancellation processed"
                 ELSE \E p \in Procs :
                        /\ pc[p] = "idle" /\ op'[p] = "cancel"
                        /\ pc'[p] = "transaction.save"
                        /\ loc'[p].idx \in PendingMatches(CancelToken)
        /\ \A p \in Procs :
              (op[p] = "cancel" /\ pc[p] = "transaction.save" /\ pc'[p] = "idle") =>
                  /\ events' = events
                  /\ response'.body = "200 cancelled"
                  /\ txns'[loc[p].idx].paypalOrderId = loc[p].token
                  /\ txns'[loc[p].idx].status = "CANCELLED"
                  /\ txns'[loc[p].idx].paymentDetails = "User cancelled payment"
                  /\ Len(txns') = Len(txns)
                  /\ \A j \in 1..Len(txns) : j # loc[p].idx => txns'[j] = txns[j] ]_vars

\* a cancellation of an order that an earlier cancellation had already
\* cancelled has just been acknowledged
C11_Witness ==
    /\ response.handler = "cancel"
    /\ response.body = "200 cancellation processed"
    /\ \E i \in 1..Len(txns) :
          /\ txns[i].paypalOrderId = response.request.token
          /\ txns[i].status = "CANCELLED"
          /\ txns[i].paymentDetails = "User cancelled payment"
          /\ events[txns[i].ticketId].exists

\* C12 -- No dangling PENDING after Complete: a Complete call that found a
\* PENDING transaction and answers with an error leaves that transaction
\* FAILED with the error recorded; one that answers with success leaves it
\* COMPLETED; and every Complete call that found a PENDING transaction does
\* answer, with the transaction COMPLETED or FAILED at that moment.
C12_NoDanglingPending ==
    /\ [][ \A p \in Procs :
              (op[p] = "complete" /\ pc[p] # "idle" /\ pc'[p] = "idle") =>
                  /\ response'.handler = "complete"
                  /\ txns'[loc[p].idx].paypalOrderId = loc[p].token
                  /\ IF response'.body = "200 payment successful"
                     THEN txns'[loc[p].idx].status = "COMPLETED"
                     ELSE /\ response'.body = "500 error"
                          /\ loc[p].error # ""
                          /\ txns'[loc[p].idx].status = "FAILED"
                          /\ txns'[loc[p].idx].paymentDetails = loc[p].error ]_vars
    /\ \A p \in Procs : []<>(op[p] # "complete")

\* a Complete call has just failed because the event of its PENDING
\* transaction had been deleted: the transaction is FAILED with that error
C12_Witness ==
    /\ response.handler = "complete"
    /\ response.body = "500 error"
    /\ \E i \in 1..Len(txns) :
          /\ txns[i].paypalOrderId = response.request.token
          /\ txns[i].status = "FAILED"
          /\ txns[i].paymentDetails = "event no longer exists"
          /\ ~events[txns[i].ticketId].exists

\* C13 -- Re-check precedes capture: the provider is never asked to capture
\* the order of a transaction that failed the availability re-check of
\* Complete, i.e. a transaction FAILED for insufficient tickets has had no
\* capture call.
C13_RecheckBeforeCapture ==
    \A i \in 1..Len(txns) :
        (txns[i].status = "FAILED" /\ txns[i].paymentDetails = "insufficient tickets")
            => captureCalls[txns[i].paypalOrderId] = 0

\* a step of a purchase (Create) handler
CreateStep ==
    \/ CreateReceived
    \/ \E p \in Procs : op[p] = "create" /\ pc'[p] # pc[p]

\* a step of a cancellation handler
CancelStep ==
    \/ CancelReceived
    \/ \E p \in Procs : op[p] = "cancel" /\ pc'[p] # pc[p]

\* a step of an organiser's update or delete
AdminStep ==
    \/ calls' = calls + 1 /\ response'.handler \in {"updateEvent", "deleteEvent"}
    \/ \E p \in Procs : op[p] = "updateEvent" /\ pc'[p] # pc[p]

\* C14 -- No reserve/hold: no step of Create, accepted or rejected, changes
\* an event; a step that changes an event and is not an organiser's is the
\* event.save() of a Complete call, and the one step left to that call
\* answers with success and leaves its transaction COMPLETED.
C14_NoReserve ==
    [][ /\ CreateStep => events' = events
        /\ CancelStep => events' = events
        /\ (events' # events /\ ~AdminStep) =>
              \E p \in Procs :
                  /\ op[p] = "complete" /\ pc[p] = "event.save"
                  /\ op'[p] = "complete" /\ pc'[p] = "transaction.save"
        /\ \A p \in Procs :
              (op[p] = "complete" /\ pc[p] = "transaction.save" /\ pc'[p] # pc[p]) =>
                  /\ response'.body = "200 payment successful"
                  /\ txns'[loc[p].idx].status = "COMPLETED" ]_vars

\* two PENDING single-ticket transactions exist for the one VIP ticket that
\* is still available
C14_Witness ==
    /\ ~adminUpdated
    /\ Len(txns) = 2
    /\ \A i \in 1..2 : /\ txns[i].status = "PENDING"
                        /\ txns[i].ticketType = "vip"
                        /\ txns[i].ticketCount = 1
    /\ events["e1"].pricing["vip"].available = 1

\* C15 -- Provider failure during Create: when createOrder throws, the
\* handler answers with an error in that step and ends; no transaction has
\* been or is inserted by it, no order was opened and no event changes.
C15_ProviderFailureAtCreate ==
    [][ \A p \in Procs :
          (op[p] = "create" /\ pc[p] = "createOrder" /\ pc'[p] = "idle") =>
              /\ response'.handler = "create"
              /\ response'.body = "500 error"
              /\ response'.request = loc[p].request
              /\ op'[p] = "none"
              /\ txns' = txns
              /\ events' = events
              /\ nextOrder' = nextOrder
              /\ \A i \in 1..Len(txns) : txns[i].paypalOrderId # NoToken ]_vars

\* the provider has refused the only order ever asked for: the purchase was
\* answered with an error and no transaction exists
C15_Witness ==
    /\ response.handler = "create"
    /\ response.body = "500 error"
    /\ response.request.ticketCount = 1
    /\ nextOrder = 1
    /\ txns = <<>>
    /\ ~adminUpdated
    /\ events["e1"].pricing["vip"].available = 1

\* What each of the four input formats yields on its own
FormatResult(body, n) ==
    CASE n = 1 -> IF body.pricingOptions.kind = "array"
                  THEN SetOptions(EmptyPricing, body.pricingOptions.items, 1)
                  ELSE EmptyPricing
      [] n = 2 -> SetIndexed(EmptyPricing, body.indexed, 1)
      [] n = 3 -> SetIndexed(EmptyPricing, body.custom, 1)
      [] n = 4 -> LegacyPricing(body.legacy)

FirstNonEmptyFormat(body) ==
    IF \A n \in 1..4 : DOMAIN FormatResult(body, n) = {}
    THEN EmptyPricing
    ELSE FormatResult(body,
            CHOOSE n \in 1..4 :
                /\ DOMAIN FormatResult(body, n) # {}
                /\ \A m \in 1..(n - 1) : DOMAIN FormatResult(body, m) = {})

\* C16 -- Normalizer format priority: what parsePricingData returns is what
\* the first of the four formats (pricingOptions, pricing_<i>_*,
\* ticketName_<i>..., legacy) that yields any entry yields on its own; a
\* format that yields none falls through to the next.
C16_FormatPriority ==
    normalizer.stage \in {"parsed", "validated"} =>
        normalizer.pricingMap = FirstNonEmptyFormat(normalizer.body)

\* C17 -- Validation soundness: a map validatePricingData accepts has between
\* 1 and 10 entries, and every entry has a name that is not blank, a price
\* that is a number >= 0 and an available count that is a number >= 0.
C17_ValidationSound ==
    (normalizer.stage = "validated" /\ normalizer.valid) =>
        /\ Cardinality(DOMAIN normalizer.pricingMap) >= 1
        /\ Cardinality(DOMAIN normalizer.pricingMap) <= MaxPricingOptions
        /\ \A key \in DOMAIN normalizer.pricingMap :
              /\ normalizer.pricingMap[key].name # Undefined
              /\ Trim(normalizer.pricingMap[key].name) # ""
              /\ normalizer.pricingMap[key].price # NaN
              /\ normalizer.pricingMap[key].price >= 0
              /\ normalizer.pricingMap[key].available # NaN
              /\ normalizer.pricingMap[key].available >= 0

\* C18 -- All-or-nothing pricing ingestion: a createEvent or updateEvent
\* call changes the stored events only with pricing that passed validation,
\* and then every option its body submitted in pricingOptions is among the
\* stored ticket types: none is dropped while the others are accepted.
C18_AllOrNothing ==
    [][ \A p \in Procs :
          ( /\ op[p] \in {"createEvent", "updateEvent"}
            /\ pc'[p] # pc[p]
            /\ events' # events ) =>
              /\ DOMAIN loc[p].pricing # {} => validatePricingData(loc[p].pricing)
              /\ op[p] = "createEvent" => DOMAIN loc[p].pricing # {}
              /\ loc[p].body.pricingOptions.kind = "array" =>
                    Cardinality(DOMAIN events'[loc[p].eventId].pricing)
                        = Len(loc[p].body.pricingOptions.items) ]_vars

\* C19 -- Event pricing invariant: every stored event holds between 1 and 10
\* ticket types, each with price >= 0 and available >= 0.
C19_EventPricingInvariant ==
    \A e \in EventIds :
        events[e].exists =>
            /\ Cardinality(DOMAIN events[e].pricing) >= 1
            /\ Cardinality(DOMAIN events[e].pricing) <= MaxPricingOptions
            /\ \A k \in DOMAIN events[e].pricing :
                  /\ events[e].pricing[k].price # NaN
                  /\ events[e].pricing[k].price >= 0
                  /\ events[e].pricing[k].available # NaN
                  /\ events[e].pricing[k].available >= 0

\* C20 -- No resurrection: no step leaves a stored transaction PENDING that
\* was not PENDING before it, and no step removes a transaction; a
\* transaction that appears in a step is appended by Create.
C20_NoResurrection ==
    [][ /\ Len(txns') >= Len(txns)
        /\ \A i \in 1..Len(txns) :
              txns'[i].status = "PENDING" => txns[i].status = "PENDING"
        /\ \A i \in (Len(txns) + 1)..Len(txns') :
              /\ txns'[i].status = "PENDING"
              /\ \E p \in Procs : op[p] = "create" /\ pc[p] = "transaction.save" ]_vars

\* a Complete call has just failed at the capture: the transaction it found
\* PENDING has been written by an operation other than Create and is FAILED
C20_Witness ==
    /\ response.handler = "complete"
    /\ response.body = "500 error"
    /\ \E i \in 1..Len(txns) :
          /\ txns[i].paypalOrderId = response.request.token
          /\ txns[i].status = "FAILED"
          /\ txns[i].paymentDetails = "capture failed"
          /\ captureCalls[txns[i].paypalOrderId] = 1

\* C21 -- Deleted event at completion: when populate finds no event for the
\* PENDING transaction, the handler goes to its catch block without calling
\* the provider, and the catch block leaves the transaction FAILED with the
\* error recorded; neither step changes an event or a capture count.
C21_DeletedEventAtCompletion ==
    [][ \A p \in Procs :
          /\ ( /\ op[p] = "complete" /\ pc[p] = "populate"
               /\ ~events[loc[p].eventId].exists
               /\ pc'[p] # pc[p] ) =>
                  /\ pc'[p] = "catch.save"
                  /\ loc'[p].error = "event no longer exists"
                  /\ captureCalls' = captureCalls
                  /\ events' = events
                  /\ txns' = txns
          /\ ( /\ op[p] = "complete" /\ pc[p] = "catch.save"
               /\ loc[p].error = "event no longer exists"
               /\ pc'[p] # pc[p] ) =>
                  /\ response'.handler = "complete"
                  /\ response'.body = "500 error"
                  /\ txns'[loc[p].idx].paypalOrderId = loc[p].token
                  /\ txns'[loc[p].idx].status = "FAILED"
                  /\ txns'[loc[p].idx].paymentDetails = "event no longer exists"
                  /\ captureCalls' = captureCalls
                  /\ events' = events ]_vars

\* the only Complete call for an order whose event had been deleted has
\* just failed: the transaction is FAILED and the provider was never asked
\* to capture the order
C21_Witness ==
    /\ response.handler = "complete"
    /\ response.body = "500 error"
    /\ \E i \in 1..Len(txns) :
          /\ txns[i].paypalOrderId = response.request.token
          /\ txns[i].status = "FAILED"
          /\ txns[i].paymentDetails = "event no longer exists"
          /\ captureCalls[txns[i].paypalOrderId] = 0
          /\ ~events[txns[i].ticketId].exists

\* the stored transactions that carry the id and the buyer of the request
\* just answered
OwnMatches ==
    {i \in 1..Len(txns) : /\ txns[i].transactionId = response.request.transactionId
                          /\ txns[i].userId = response.request.userId}

\* C22 -- Owner isolation: getTransactionDetails answers with a transaction
\* only when it carries the requested id and the requesting buyer; when the
\* buyer has no transaction with that id the answer is the one Not Found,
\* whether or not another buyer has one.
C22_OwnerIsolation ==
    response.handler = "getTransactionDetails" =>
        IF OwnMatches = {}
        THEN response.body = [status |-> "404 Transaction not found",
                              transaction |-> NoTransaction]
        ELSE /\ response.body.status = "200"
             /\ \E i \in OwnMatches : response.body.transaction = txns[i]

\* a buyer has just asked for a transaction that exists and belongs to the
\* other buyer, and was told Not Found
C22_Witness ==
    /\ response.handler = "getTransactionDetails"
    /\ response.body.status = "404 Transaction not found"
    /\ \E i \in 1..Len(txns) :
          /\ txns[i].transactionId = response.request.transactionId
          /\ txns[i].userId # response.request.userId

\* the transactions listed in the history answer that are settled
SettledListed ==
    SelectSeq(response.body.transactions,
              LAMBDA t : t.status = "COMPLETED" \/ t.status = "PAID")

\* C23 -- History summary: totalSpent, totalTickets and the completed count of
\* a history answer are the sums and the count over exactly the listed
\* transactions whose status is COMPLETED or PAID.
C23_SummaryOverSettled ==
    response.handler \in {"getPaymentHistory", "PaymentHistory.getPaymentHistory"} =>
        /\ response.body.summary.totalSpent = SumAmount(SettledListed)
        /\ response.body.summary.totalTickets = SumTicketCount(SettledListed)
        /\ response.body.summary.completedTransactions = Len(SettledListed)

\* C24 -- reduceTicketAvailability(ticketTypeId, quantity) returns true and
\* lowers that ticket type's available by exactly quantity iff the ticket
\* type exists and available >= quantity; otherwise it returns false and
\* changes nothing; no other ticket type changes, and for quantity >= 0 no
\* available is left negative.
C24_ReduceContract ==
    [][ (normalizer.stage = "document" /\ normalizer'.stage = "reduced") =>
          LET e == response'.request.ticketId
              ticketTypeId == response'.request.ticketTypeId
              quantity == response'.request.quantity
              before == events[e].pricing
              after == events'[e].pricing
              enough == /\ ticketTypeId \in DOMAIN before
                        /\ before[ticketTypeId].available >= quantity
          IN  /\ response'.body = enough
              /\ DOMAIN after = DOMAIN before
              /\ \A k \in DOMAIN before : k # ticketTypeId => after[k] = before[k]
              /\ enough =>
                    /\ after[ticketTypeId].available =
                           before[ticketTypeId].available - quantity
                    /\ after[ticketTypeId].name = before[ticketTypeId].name
                    /\ after[ticketTypeId].price = before[ticketTypeId].price
              /\ ~enough => events' = events
              /\ quantity >= 0 => \A k \in DOMAIN after : after[k].available >= 0 ]_vars

\* the method has just sold out a ticket type exactly, next to a second
\* ticket type that still has tickets
C24_Witness ==
    /\ normalizer.stage = "reduced"
    /\ response.handler = "reduceTicketAvailability"
    /\ response.body = TRUE
    /\ response.request.quantity = MaxAvailable
    /\ events[response.request.ticketId].pricing[response.request.ticketTypeId].available = 0
    /\ \E k \in DOMAIN events[response.request.ticketId].pricing :
          events[response.request.ticketId].pricing[k].available > 0

C26_PositiveCount ==
    /\ [](\A i \in 1..Len(txns) : txns[i].ticketCount >= 1)
    /\ [][ \A p \in Procs :
             (op[p] = "complete" /\ pc[p] = "event.save" /\ pc'[p] # pc[p]) =>
                 \A e \in EventIds :
                     \A k \in DOMAIN events[e].pricing \cap DOMAIN events'[e].pricing :
                         events'[e].pricing[k].available <= events[e].pricing[k].available
         ]_vars

\* C27 -- Authoritative price snapshot: a Create that passes the price check
\* carries on with the ticket type's stored price, and the transaction it
\* saves has that price as pricePerTicket and that price times ticketCount
\* as amount, also when the client's price differs within the tolerance.
C27_AuthoritativePrice ==
    [][ \A p \in Procs :
          /\ (pc[p] = "idle" /\ pc'[p] = "createOrder") =>
                loc'[p].pricePerTicket =
                    events[loc'[p].eventId].pricing[loc'[p].ticketType].price
          /\ (op[p] = "create" /\ pc[p] = "transaction.save" /\ Len(txns') = Len(txns) + 1) =>
                /\ txns'[Len(txns')].pricePerTicket = loc[p].pricePerTicket
                /\ txns'[Len(txns')].amount = loc[p].pricePerTicket * loc[p].ticketCount
      ]_vars

\* C28 -- Status/paymentStatus agreement: in every reachable state a
\* transaction has paymentStatus 'paid' if and only if its status is
\* COMPLETED.
C28_PaidIffCompleted ==
    \A i \in 1..Len(txns) :
        (txns[i].paymentStatus = "paid") <=> (txns[i].status = "COMPLETED")

\* C29 -- No entry lost to id collision: for a pricingOptions array in which
\* every entry has name, price and available, parsePricingData yields one
\* ticket type per entry, and an entry without id is found under
\* option_<1-based index>.
C29_NoEntryLost ==
    ( /\ normalizer.stage \in {"parsed", "validated"}
      /\ normalizer.body.pricingOptions.kind = "array"
      /\ \A i \in 1..Len(normalizer.body.pricingOptions.items) :
            HasAllFields(normalizer.body.pricingOptions.items[i]) ) =>
        LET items == normalizer.body.pricingOptions.items IN
        /\ Cardinality(DOMAIN normalizer.pricingMap) = Len(items)
        /\ \A i \in 1..Len(items) :
              items[i].id \in {Undefined, ""} =>
                  /\ OptionId[i] \in DOMAIN normalizer.pricingMap
                  /\ normalizer.pricingMap[OptionId[i]] = PricingEntry(items[i])

\* C30 -- Create reports success exactly when it persists a transaction: a
\* Create that answers with the approval handle has appended one PENDING
\* transaction in that step, and a Create that answers with an error leaves
\* the transaction store as it was.
C30_SuccessIffPersisted ==
    [][ response'.handler = "create" =>
          IF response'.body = "200 approvalUrl"
          THEN /\ Len(txns') = Len(txns) + 1
               /\ txns'[Len(txns')].status = "PENDING"
               /\ SubSeq(txns', 1, Len(txns)) = txns
          ELSE txns' = txns ]_vars
====
